---- MODULE Spec2Model ----
(***************************************************************************)
(* csvtogpx.py: batch conversion of GPS logs (CSV) into GPX tracks.        *)
(*                                                                         *)
(* main() walks the CSV files of the input folder; each file is read,      *)
(* its columns are standardized (standardize_dataframe) and the rows are   *)
(* turned into a track (process_and_generate_gpx): sorted by time, rows    *)
(* with a missing timestamp/lat/lon dropped, a new segment started at      *)
(* every gap above MAX_GAP_SECONDS, one point per second interpolated in   *)
(* the gaps between INTERPOLATION_STEP and MAX_GAP_SECONDS.                *)
(*                                                                         *)
(* Units.  An instant is a whole number of ticks, Resolution ticks to the  *)
(* second, so that timestamps with a fractional part are inputs of the     *)
(* model.  Latitude and longitude are whole micro-degrees and elevation    *)
(* whole centimetres: the precision _write_pt renders them with.  A        *)
(* rendered value is its text: a minus sign or none, and the digits as a   *)
(* count of those units.                                                   *)
(***************************************************************************)
EXTENDS Integers, Sequences, FiniteSets

\* ------------------------------------------------------------- constants
MAX_GAP_SECONDS == 300
INTERPOLATION_STEP == 1

\* ---------------------------------------------------------------- bounds
Resolution == 2     \* ticks per second
MaxRows == 3        \* rows of the file whose rows are enumerated
MaxFiles == 3       \* files of an enumerated batch

\* ----------------------------------------------------------------- cells
\* A cell of the frame: a number, a text that is no number, or NaN (an
\* empty CSV field; NaT in a datetime column).
Num(n) == [k |-> "num", v |-> n]
Text == [k |-> "text", v |-> 0]
NaN == [k |-> "nan", v |-> 0]

isna(c) == c.k = "nan"

\* pd.to_numeric(errors='coerce') on one cell.
to_numeric(c) == IF c.k = "num" THEN c ELSE NaN

\* pd.to_datetime(unit='s') on one cell of the numeric timestamp column.
to_datetime(c) == IF isna(c) THEN NaN ELSE Num(c.v)

Range(s) == {s[j] : j \in 1..Len(s)}

\* -------------------------------------------------------------- headers
\* A header name is a sequence of tokens; the token " " is white space.
Name(w) == <<w>>

RECURSIVE lstrip(_)
lstrip(n) == IF n # <<>> /\ Head(n) = " " THEN lstrip(Tail(n)) ELSE n

RECURSIVE rstrip(_)
rstrip(n) ==
    IF n # <<>> /\ n[Len(n)] = " " THEN rstrip(SubSeq(n, 1, Len(n) - 1)) ELSE n

\* str.strip() of one column name.
strip(n) == rstrip(lstrip(n))

\* df.rename(columns=m): m is a set of <<old, new>> pairs.
rename(cols, m) ==
    [j \in 1..Len(cols) |->
        IF \E p \in m : p[1] = cols[j]
        THEN (CHOOSE p \in m : p[1] = cols[j])[2]
        ELSE cols[j]]

VariflightMap ==
    { <<Name("Time"), Name("timestamp")>>, <<Name("Latitude"), Name("lat")>>,
      <<Name("Longitude"), Name("lon")>>, <<Name("Height"), Name("ele")>> }

FootprintMap ==
    { <<Name("dataTime"), Name("timestamp")>>, <<Name("latitude"), Name("lat")>>,
      <<Name("longitude"), Name("lon")>>, <<Name("altitude"), Name("ele")>> }

\* The positions of the columns called n.
ColumnsNamed(cols, n) == {j \in 1..Len(cols) : cols[j] = n}

\* df[n] is one column (a Series) only when exactly one column is called n;
\* with several it is a DataFrame.
IsSeries(cols, n) == Cardinality(ColumnsNamed(cols, n)) = 1

\* The cell of row r in the column called n (one such column).
Cell(cols, r, n) == r[CHOOSE j \in ColumnsNamed(cols, n) : TRUE]

\* df[n] = pd.to_numeric(df[n], errors='coerce'): every cell of column n.
NumericColumn(cols, rows, n) ==
    [x \in 1..Len(rows) |->
        [j \in 1..Len(cols) |->
            IF cols[j] = n THEN to_numeric(rows[x][j]) ELSE rows[x][j]]]

\* The statements shared by both recognized branches: rename, then
\* df['timestamp'] = pd.to_numeric(df['timestamp'], errors='coerce'),
\* which raises TypeError when df['timestamp'] is not a Series.
Recognized(cols, rows, m, fmt) ==
    LET rc == rename(cols, m) IN
    IF IsSeries(rc, Name("timestamp"))
    THEN [raised |-> FALSE, fmt |-> fmt, cols |-> rc,
          rows |-> NumericColumn(rc, rows, Name("timestamp"))]
    ELSE [raised |-> TRUE, fmt |-> fmt, cols |-> rc, rows |-> rows]

IsVariflight(cols) ==
    /\ Name("Time") \in Range(cols)
    /\ Name("Latitude") \in Range(cols)
    /\ Name("Longitude") \in Range(cols)

IsFootprint(cols) ==
    /\ Name("dataTime") \in Range(cols)
    /\ Name("latitude") \in Range(cols)
    /\ Name("longitude") \in Range(cols)

\* standardize_dataframe(df, filename): fmt is the format announced
\* ("None" when the columns are not recognized); raised tells that the
\* call ended in an exception instead of returning (df, fmt).
standardize_dataframe(columns, rows) ==
    LET cols == [j \in 1..Len(columns) |-> strip(columns[j])] IN
    IF IsVariflight(cols) THEN Recognized(cols, rows, VariflightMap, "Variflight")
    ELSE IF IsFootprint(cols) THEN Recognized(cols, rows, FootprintMap, "Footprint")
    ELSE [raised |-> FALSE, fmt |-> "None", cols |-> cols, rows |-> rows]

\* ------------------------------------------------------- the track builder
MaxGapTicks == MAX_GAP_SECONDS * Resolution
StepTicks == INTERPOLATION_STEP * Resolution

\* Line 61-64: the frame process_and_generate_gpx works on, one record per
\* row; ele is 0 for the whole file when there is no 'ele' column;
\* dt_object is the instant of the row, NaT for a NaN timestamp.
Frame(cols, rows) ==
    [x \in 1..Len(rows) |->
        LET ts == Cell(cols, rows[x], Name("timestamp")) IN
        [timestamp |-> ts,
         lat |-> Cell(cols, rows[x], Name("lat")),
         lon |-> Cell(cols, rows[x], Name("lon")),
         ele |-> IF Name("ele") \in Range(cols)
                 THEN Cell(cols, rows[x], Name("ele")) ELSE Num(0),
         dt_object |-> to_datetime(ts)]]

Perms(n) == {p \in [1..n -> 1..n] : \A a, b \in 1..n : a # b => p[a] # p[b]}

\* a may stand before b in ascending order of dt_object, NaT last.
InOrder(a, b) ==
    \/ isna(b.dt_object)
    \/ ~isna(a.dt_object) /\ a.dt_object.v <= b.dt_object.v

\* A slip of line 65: the rows are left in the order of the file.
sort_values_unsorted(d) == {d}

\* Line 65: df.sort_values(by='dt_object').reset_index(drop=True).  The
\* default sort is not stable: rows of equal instant may come out in any
\* order, so the result is any ascending arrangement of the rows.
sort_values(d) ==
    { [j \in 1..Len(d) |-> d[p[j]]] : p \in
        {q \in Perms(Len(d)) :
            \A j \in 1..(Len(d) - 1) : InOrder(d[q[j]], d[q[j + 1]])} }

\* A slip of line 66: 'timestamp' left out of the subset.
KeptByDropna_latlon(r) == ~isna(r.lat) /\ ~isna(r.lon)

\* Line 66: df.dropna(subset=['lat', 'lon', 'timestamp']).
KeptByDropna(r) == ~isna(r.lat) /\ ~isna(r.lon) /\ ~isna(r.timestamp)
dropna(d) == SelectSeq(d, KeptByDropna)

\* A value handed to _write_pt: the fraction num/den (den > 0) that the
\* real-number reading of the code's expression gives.  den = 1 marks a
\* value the code holds as the cell read from the file; den > 1 marks a
\* double the code computed by lat1 + (lat2 - lat1) * fraction.
Exact(v) == <<v, 1>>

\* The text f"{x:.6f}" / f"{x:.2f}" produces: a minus sign when the double
\* is negative, and the digits as a count of units of the rendered precision
\* ("-0.000002" is Shown(TRUE, 2), "-0.000000" is Shown(TRUE, 0)).
Shown(neg, n) == [minus |-> neg, digits |-> IF n < 0 THEN 0 - n ELSE n]

\* f"{x:.6f}" / f"{x:.2f}": the texts the format can produce for the double
\* that stands for num/den.  The format rounds the double, not the fraction:
\* off an exact half of a unit the double is on the fraction's side and the
\* text is the nearest unit; at an exact half the double lies above or below
\* the half and either neighbouring unit is produced; a computed double whose
\* fraction is exactly zero may be a rounding error of either sign.
Render(x) ==
    LET q == x[1] \div x[2]
        r == x[1] % x[2]
    IN  IF x[1] = 0 /\ x[2] > 1 THEN {Shown(FALSE, 0), Shown(TRUE, 0)}
        ELSE IF 2 * r < x[2] THEN {Shown(x[1] < 0, q)}
        ELSE IF 2 * r > x[2] THEN {Shown(x[1] < 0, q + 1)}
        ELSE {Shown(x[1] < 0, q), Shown(x[1] < 0, q + 1)}

\* time_obj.strftime('%Y-%m-%dT%H:%M:%SZ'): whole seconds, the fraction
\* of a second cut off.
strftime(t) == t \div Resolution

\* _write_pt: the trkpt elements the call can append, one for each text the
\* formats can produce; at is the time_obj argument, the instant the point
\* stands for, time is the <time> text in seconds.
_write_pt(lat, lon, ele, time_obj) ==
    {[lat |-> a, lon |-> o, ele |-> e,
      time |-> strftime(time_obj), at |-> time_obj] :
        a \in Render(lat), o \in Render(lon), e \in Render(ele)}

\* Line 92, 86 and 107: _write_pt called with a record's own cells.
PointOf(r) == _write_pt(Exact(r.lat.v), Exact(r.lon.v), Exact(r.ele.v), r.dt_object.v)

\* Line 83: time_diff = (t2 - t1).total_seconds(), in ticks.
time_diff(curr, next_p) == next_p.dt_object.v - curr.dt_object.v

\* A slip of line 85: >= instead of >.
IsGapSplit_ge(td) == td >= MaxGapTicks

\* Line 85 and line 90: the two tests of the loop body.
IsGapSplit(td) == td > MaxGapTicks
IsSmallGap(td) == td <= StepTicks

\* A slip of line 95: the quotient rounded up.
Steps_ceil(td) == (td + StepTicks - 1) \div StepTicks

\* Line 95: steps = int(time_diff / INTERPOLATION_STEP).
Steps(td) == td \div StepTicks

\* Line 97-100: lat1 + (lat2 - lat1) * (step / steps).  At step 0 the
\* fraction is 0.0 and with equal ends the difference is 0.0: the sum is
\* lat1 itself, no rounding involved.
Lerp(v1, v2, step, steps) ==
    IF step = 0 \/ v1 = v2 THEN Exact(v1)
    ELSE <<v1 * steps + (v2 - v1) * step, steps>>

\* A slip of line 101: the steps counted from 1.
InterpTime_from1(t1, step) == t1 + (step + 1) * Resolution

\* Line 101: i_time = t1 + datetime.timedelta(seconds=step).
InterpTime(t1, step) == t1 + step * Resolution

\* Line 96-104, the rounds step = lo .. hi of the inner loop: the sequences
\* of points they can append, the rounds taken in order.
RECURSIVE InterpolatedSteps(_, _, _, _, _)
InterpolatedSteps(curr, next_p, steps, lo, hi) ==
    IF lo > hi THEN {<<>>}
    ELSE IF lo = hi
    THEN {<<p>> : p \in _write_pt(Lerp(curr.lat.v, next_p.lat.v, lo, steps),
                                 Lerp(curr.lon.v, next_p.lon.v, lo, steps),
                                 Lerp(curr.ele.v, next_p.ele.v, lo, steps),
                                 InterpTime(curr.dt_object.v, lo))}
    ELSE LET mid == (lo + hi) \div 2 IN
         {a \o b : a \in InterpolatedSteps(curr, next_p, steps, lo, mid),
                   b \in InterpolatedSteps(curr, next_p, steps, mid + 1, hi)}

\* Line 95-104: the point sequences one interpolated pair can append,
\* step = 0 .. steps-1.
Interpolated(curr, next_p) ==
    LET steps == Steps(time_diff(curr, next_p)) IN
    InterpolatedSteps(curr, next_p, steps, 0, steps - 1)

\* SubElement(trkseg, 'trkpt', ...): pts appended to the current segment.
Emit(t, pts) == [t EXCEPT ![Len(t)] = @ \o pts]

\* A slip of line 87: no new trkseg is started.
NewSegment_same(t) == t

\* Line 87: trkseg = SubElement(trk, 'trkseg').
NewSegment(t) == Append(t, <<>>)

\* A slip of line 104: the count raised once per pair, outside the inner loop.
Counted_once(c, n) == c + 1

\* Line 92 and 104: count_generated += 1, once per point written there.
Counted(c, n) == c + n

\* ------------------------------------------------------------- the inputs
\* A CSV file: readable tells whether pd.read_csv parses it, columns are
\* the header names as written, rows the cells under them.
\* In the files enumerated, the cells of the position and elevation
\* columns are numbers or empty (latitude, longitude), and no two columns
\* are called lat, lon or ele once renamed.
File(rd, cols, rws) == [readable |-> rd, columns |-> cols, rows |-> rws]

Seconds(n) == n * Resolution

\* The instants of the enumerated rows: ties, a gap of one second, gaps
\* with a fraction of a second, gaps just below, at and just above
\* MAX_GAP_SECONDS, and room for two gaps above it.
TimeSet ==
    {0, Seconds(1), Seconds(10) + 1, MaxGapTicks, MaxGapTicks + 1,
     2 * MaxGapTicks + Seconds(100)}

PlaceA == <<Num(0), Num(0), Num(0)>>
PlaceB == <<Num(1000000), Num(0 - 2500000), Num(5000)>>

RowAt(t, place) == <<t, place[1], place[2], place[3]>>

ValidRows ==
    {RowAt(Num(t), PlaceA) : t \in TimeSet}
        \cup {RowAt(Num(0), PlaceB)}

\* Rows that line 66 drops: a timestamp that is no number, an empty
\* timestamp, an empty latitude, an empty longitude.
DroppedRows ==
    { RowAt(Text, PlaceB), RowAt(NaN, PlaceB),
      <<Num(Seconds(10)), NaN, PlaceB[2], PlaceB[3]>>,
      <<Num(Seconds(10)), PlaceB[1], NaN, PlaceB[3]>> }

\* The rows that stand beside the dropped ones.
KeptRows == {RowAt(Num(Seconds(10)), PlaceA), RowAt(Num(0), PlaceB)}

RECURSIVE SeqsUpTo(_, _)
SeqsUpTo(S, n) ==
    IF n = 0 THEN {<<>>}
    ELSE LET shorter == SeqsUpTo(S, n - 1) IN
         shorter \cup {Append(q, x) : q \in {z \in shorter : Len(z) = n - 1}, x \in S}

HeaderA == <<Name("Time"), Name("Latitude"), Name("Longitude"), Name("Height")>>

\* One Variflight file for every choice of up to MaxRows rows, in any
\* order: rows that are all kept, and rows to drop among rows to keep.
RowFiles ==
    {File(TRUE, HeaderA, r) :
        r \in SeqsUpTo(ValidRows, MaxRows) \cup SeqsUpTo(DroppedRows \cup KeptRows, MaxRows)}

\* One file for every choice of header names out of NamePool, one row.
NamePool ==
    << Name("Time"), <<" ", "Time", " ">>, Name("Latitude"), Name("Longitude"),
       Name("dataTime"), Name("latitude"), Name("longitude"), Name("Height"),
       Name("timestamp"), Name("Speed") >>

Chosen(S) ==
    [m \in 1..Cardinality(S) |->
        NamePool[CHOOSE j \in S : Cardinality({x \in S : x <= j}) = m]]

HeaderFiles ==
    { File(TRUE, Chosen(S), << [j \in 1..Cardinality(S) |-> Num(Seconds(10))] >>) :
        S \in SUBSET (1..Len(NamePool)) }

\* The files of the enumerated batches.
CorruptFile == File(FALSE, <<>>, <<>>)
XyzFile == File(TRUE, <<Name("x"), Name("y"), Name("z")>>, << <<Num(1), Num(2), Num(3)>> >>)
TenSecondsFile ==
    File(TRUE, << <<" ", "Time">>, <<"Latitude", " ">>, Name("Longitude"), Name("Height") >>,
         << RowAt(Num(Seconds(10)), PlaceB), RowAt(Num(0), PlaceA) >>)
FourHundredFile ==
    File(TRUE, <<Name("dataTime"), Name("latitude"), Name("longitude")>>,
         << <<Num(0), Num(0), Num(0)>>, <<Num(Seconds(400)), Num(1000000), Num(0)>> >>)
HeaderOnlyFile == File(TRUE, HeaderA, <<>>)
TwoTimestampsFile ==
    File(TRUE, <<Name("Time"), Name("Latitude"), Name("Longitude"), Name("timestamp")>>,
         << <<Num(0), Num(0), Num(0), Num(0)>> >>)


\* Files whose interpolated values fall on an exact half of a unit of the
\* rendered precision, on exactly zero, and between zero and minus a half.
HalfwayFile ==
    File(TRUE, HeaderA,
         << RowAt(Num(0), PlaceA), <<Num(Seconds(2)), Num(5), Num(0 - 7), Num(1)>> >>)
BelowZeroFile ==
    File(TRUE, HeaderA,
         << <<Num(0), Num(0 - 1), Num(0 - 1), Num(0)>>,
            <<Num(Seconds(3)), Num(0), Num(2), Num(0)>> >>)

BatchFiles ==
    { CorruptFile, XyzFile, TenSecondsFile, FourHundredFile, HeaderOnlyFile,
      TwoTimestampsFile }

Inputs ==
    {<<f>> : f \in RowFiles \cup HeaderFiles \cup {HalfwayFile, BelowZeroFile}}
        \cup SeqsUpTo(BatchFiles, MaxFiles)

\* ---------------------------------------------------------------- state
VARIABLES
    files,            \* csv_files: the files glob found, in its order
    fi,               \* main: the position of file_path in csv_files
    pc,               \* "start", "main", "loop", "done", "nofiles"
    df,               \* process_and_generate_gpx: df after line 66
    i,                \* process_and_generate_gpx: the pair (df[i], df[i+1])
    trk,              \* the trkseg elements of trk, each its trkpt elements
    count_generated,
    results,          \* what main reported, one entry per file attempted
    outputs           \* the .gpx files written, in the order written

vars == <<files, fi, pc, df, i, trk, count_generated, results, outputs>>

Init ==
    /\ files \in Inputs
    /\ fi = 1
    /\ pc = "start"
    /\ df = <<>>
    /\ i = 1
    /\ trk = <<>>
    /\ count_generated = 0
    /\ results = <<>>
    /\ outputs = <<>>

\* standardize_dataframe on the k-th file.
Std(k) == standardize_dataframe(files[k].columns, files[k].rows)

\* What main reports for the k-th file: fmt is the format announced ("-"
\* when the file was not read), outcome is "ok", "skipped" or "error",
\* raised_in names the call whose exception line 146 caught ("-": none),
\* count is pts_count.
Result(k, fmt, outcome, where, n) ==
    [file |-> k, fmt |-> fmt, outcome |-> outcome, raised_in |-> where, count |-> n]

\* Line 129, 138, 149: after a conversion or a skip the for loop goes on
\* to the next file.
AfterFile(k) == k + 1

\* A slip of line 133: no try around the body, the exception ends the loop.
AfterException_abort(k) == Len(files) + 1

\* Line 133, 146-149: the exception is caught inside the loop body, and the
\* for loop goes on to the next file.
AfterException(k) == k + 1


\* ------------------------------------------------------------------ main
\* Line 129-133: the loop of main is at the file csv_files[fi].
Attempting == pc = "main" /\ fi <= Len(files)

\* Line 75-77: the loop of process_and_generate_gpx is at the pair
\* (df[i], df[i + 1]).
InLoop == pc = "loop" /\ i < Len(df)

\* Line 121-125: no CSV file, main returns.
NoFilesGuard == pc = "start" /\ files = <<>>

NoFiles ==
    /\ NoFilesGuard
    /\ pc' = "nofiles"
    /\ UNCHANGED <<files, fi, df, i, trk, count_generated, results, outputs>>

\* Line 127: some CSV files, the loop starts.
BeginGuard == pc = "start" /\ files # <<>>

Begin ==
    /\ BeginGuard
    /\ pc' = "main"
    /\ UNCHANGED <<files, fi, df, i, trk, count_generated, results, outputs>>

\* Line 134, 146-147: pd.read_csv raises.
ReadErrorGuard == Attempting /\ ~files[fi].readable

ReadError ==
    /\ ReadErrorGuard
    /\ results' = Append(results, Result(fi, "-", "error", "read_csv", 0))
    /\ fi' = AfterException(fi)
    /\ UNCHANGED <<files, pc, df, i, trk, count_generated, outputs>>

\* Line 136, 55-58, 138: the columns are not recognized, the file is skipped.
UnrecognizedGuard ==
    Attempting /\ files[fi].readable /\ ~Std(fi).raised /\ Std(fi).fmt = "None"

Unrecognized ==
    /\ UnrecognizedGuard
    /\ results' = Append(results, Result(fi, "None", "skipped", "-", 0))
    /\ fi' = AfterFile(fi)
    /\ UNCHANGED <<files, pc, df, i, trk, count_generated, outputs>>

\* Line 136, 39/52, 146-147: standardize_dataframe raises.
StandardizeErrorGuard == Attempting /\ files[fi].readable /\ Std(fi).raised

StandardizeError ==
    /\ StandardizeErrorGuard
    /\ results' = Append(results, Result(fi, Std(fi).fmt, "error", "standardize_dataframe", 0))
    /\ fi' = AfterException(fi)
    /\ UNCHANGED <<files, pc, df, i, trk, count_generated, outputs>>

\* Line 138-142, 61-73: process_and_generate_gpx is entered, up to the loop.
StartBuildGuard ==
    Attempting /\ files[fi].readable /\ ~Std(fi).raised /\ Std(fi).fmt # "None"

StartBuild ==
    /\ StartBuildGuard
    /\ \E d \in sort_values(Frame(Std(fi).cols, Std(fi).rows)) : df' = dropna(d)
    /\ trk' = << <<>> >>
    /\ count_generated' = 0
    /\ i' = 1
    /\ pc' = "loop"
    /\ UNCHANGED <<files, fi, results, outputs>>

\* Line 85-88: a gap above MAX_GAP_SECONDS.
GapSplitGuard == InLoop /\ IsGapSplit(time_diff(df[i], df[i + 1]))

GapSplit ==
    /\ GapSplitGuard
    /\ \E p \in PointOf(df[i]) : trk' = NewSegment(Emit(trk, <<p>>))
    /\ i' = i + 1
    /\ UNCHANGED <<files, fi, pc, df, count_generated, results, outputs>>

\* Line 90-93: a gap of at most INTERPOLATION_STEP.
SmallGapGuard ==
    /\ InLoop
    /\ ~IsGapSplit(time_diff(df[i], df[i + 1]))
    /\ IsSmallGap(time_diff(df[i], df[i + 1]))

SmallGap ==
    /\ SmallGapGuard
    /\ \E p \in PointOf(df[i]) : trk' = Emit(trk, <<p>>)
    /\ count_generated' = Counted(count_generated, 1)
    /\ i' = i + 1
    /\ UNCHANGED <<files, fi, pc, df, results, outputs>>

\* Line 95-104: the gap is interpolated.
InterpolateGuard ==
    /\ InLoop
    /\ ~IsGapSplit(time_diff(df[i], df[i + 1]))
    /\ ~IsSmallGap(time_diff(df[i], df[i + 1]))

Interpolate ==
    /\ InterpolateGuard
    /\ \E pts \in Interpolated(df[i], df[i + 1]) :
        /\ trk' = Emit(trk, pts)
        /\ count_generated' = Counted(count_generated, Len(pts))
    /\ i' = i + 1
    /\ UNCHANGED <<files, fi, pc, df, results, outputs>>

\* Line 106-110, 143-144: the last record's point, the file written, the
\* count returned and reported.
FinishGuard == pc = "loop" /\ i >= Len(df) /\ Len(df) > 0

Finish ==
    /\ FinishGuard
    /\ \E p \in PointOf(df[Len(df)]) : trk' = Emit(trk, <<p>>)
    /\ outputs' = Append(outputs, [file |-> fi, trk |-> trk'])
    /\ results' = Append(results, Result(fi, Std(fi).fmt, "ok", "-", count_generated))
    /\ fi' = AfterFile(fi)
    /\ pc' = "main"
    /\ UNCHANGED <<files, df, i, count_generated>>

\* Line 106, 146-147: df is empty, df.iloc[-1] raises IndexError.
FinishEmptyGuard == pc = "loop" /\ Len(df) = 0

FinishEmpty ==
    /\ FinishEmptyGuard
    /\ results' = Append(results, Result(fi, Std(fi).fmt, "error", "process_and_generate_gpx", 0))
    /\ fi' = AfterException(fi)
    /\ pc' = "main"
    /\ UNCHANGED <<files, df, i, trk, count_generated, outputs>>

\* Line 151: every file was attempted.
AllDoneGuard == pc = "main" /\ fi > Len(files)

AllDone ==
    /\ AllDoneGuard
    /\ pc' = "done"
    /\ UNCHANGED <<files, fi, df, i, trk, count_generated, results, outputs>>

Next ==
    \/ NoFiles \/ Begin \/ ReadError \/ Unrecognized \/ StandardizeError
    \/ StartBuild \/ GapSplit \/ SmallGap \/ Interpolate \/ Finish \/ FinishEmpty
    \/ AllDone

Spec == Init /\ [][Next]_vars

\* ------------------------------------------------------------ properties
Last(q) == q[Len(q)]

RECURSIVE Flat(_)
\* The points of a track in output order, across its segments.
Flat(t) == IF t = <<>> THEN <<>> ELSE Head(t) \o Flat(Tail(t))

NumPoints(t) == Len(Flat(t))

\* What a record's own point must read: its cells as they stand, its own
\* instant.
OwnPoint(r) ==
    [lat |-> [minus |-> r.lat.v < 0, digits |-> IF r.lat.v < 0 THEN 0 - r.lat.v ELSE r.lat.v],
     lon |-> [minus |-> r.lon.v < 0, digits |-> IF r.lon.v < 0 THEN 0 - r.lon.v ELSE r.lon.v],
     ele |-> [minus |-> r.ele.v < 0, digits |-> IF r.ele.v < 0 THEN 0 - r.ele.v ELSE r.ele.v],
     time |-> r.dt_object.v \div Resolution,
     at |-> r.dt_object.v]

\* main has just reported a successful conversion: df, trk and
\* count_generated are those of the file written last.
Built ==
    /\ pc \in {"main", "done"}
    /\ results # <<>>
    /\ Last(results).outcome = "ok"

\* The rows of the file just converted, as written in the file.
BuiltRows == files[Last(results).file].rows

\* C1: the points emitted, read in output order across all segments, have
\* non-decreasing timestamps (the instants and the <time> texts alike),
\* at every moment of the conversion and in every file written, whatever
\* the order of the rows in the file.
C1_Monotone ==
    /\ LET pts == Flat(trk) IN
          \A j \in 1..(Len(pts) - 1) :
              /\ pts[j].at <= pts[j + 1].at
              /\ pts[j].time <= pts[j + 1].time
    /\ \A o \in Range(outputs) :
          LET pts == Flat(o.trk) IN
          \A j \in 1..(Len(pts) - 1) :
              /\ pts[j].at <= pts[j + 1].at
              /\ pts[j].time <= pts[j + 1].time

\* C1 witness: a file whose rows are out of order was converted into a
\* track of two segments, one of them with interpolated points.
C1_Witness ==
    /\ Built
    /\ Len(BuiltRows) = 3
    /\ BuiltRows[1][1].k = "num" /\ BuiltRows[2][1].k = "num" /\ BuiltRows[3][1].k = "num"
    /\ BuiltRows[1][1].v > BuiltRows[3][1].v /\ BuiltRows[3][1].v > BuiltRows[2][1].v
    /\ Len(trk) = 2
    /\ NumPoints(trk) > 10

\* C2: two consecutive points of one segment are never more than
\* MAX_GAP_SECONDS apart, the trailing final point included.
C2_NoInternalGap ==
    \A k \in 1..Len(trk) :
        \A j \in 1..(Len(trk[k]) - 1) :
            /\ trk[k][j + 1].at - trk[k][j].at <= MAX_GAP_SECONDS * Resolution
            /\ trk[k][j + 1].time - trk[k][j].time <= MAX_GAP_SECONDS

\* C2 witness: a converted file with a gap above MAX_GAP_SECONDS between
\* two of its records and a gap of exactly MAX_GAP_SECONDS between two
\* others.
C2_Witness ==
    /\ Built
    /\ Len(df) = 3
    /\ \E a, b \in 1..2 :
          /\ time_diff(df[a], df[a + 1]) > MAX_GAP_SECONDS * Resolution
          /\ time_diff(df[b], df[b + 1]) = MAX_GAP_SECONDS * Resolution

\* The pairs of consecutive records more than MAX_GAP_SECONDS apart.
WidePairs ==
    {j \in 1..(Len(df) - 1) :
        df[j + 1].dt_object.v - df[j].dt_object.v > MAX_GAP_SECONDS * Resolution}

\* The k-th of them, in sorted order.
WidePair(k) == CHOOSE j \in WidePairs : Cardinality({x \in WidePairs : x <= j}) = k

\* Every record stands on a whole second.
WholeSeconds == \A j \in 1..Len(df) : df[j].dt_object.v % Resolution = 0

\* C3: in a converted file there is one segment boundary for every pair
\* (curr, next) of consecutive records more than MAX_GAP_SECONDS apart and
\* no other: the segment before it ends with the point of curr, the
\* segment after it starts with a point at next's time, nothing is
\* interpolated in between, and the instants of the two points are more
\* than MAX_GAP_SECONDS apart.  (The <time> texts, cut to the second, are
\* at least MAX_GAP_SECONDS apart, and more when the records stand on
\* whole seconds.)
C3_SplitAtWideGaps ==
    Built =>
        /\ Len(trk) = 1 + Cardinality(WidePairs)
        /\ \A k \in 1..Len(trk) : trk[k] # <<>>
        /\ \A k \in 1..(Len(trk) - 1) :
              /\ Last(trk[k]) = OwnPoint(df[WidePair(k)])
              /\ Head(trk[k + 1]).at = df[WidePair(k) + 1].dt_object.v
              /\ Head(trk[k + 1]).at - Last(trk[k]).at > MAX_GAP_SECONDS * Resolution
              /\ Head(trk[k + 1]).time - Last(trk[k]).time >= MAX_GAP_SECONDS
              /\ WholeSeconds =>
                    Head(trk[k + 1]).time - Last(trk[k]).time > MAX_GAP_SECONDS

\* C3 witness: a converted file with two such pairs, hence three segments.
C3_Witness ==
    /\ Built
    /\ Cardinality(WidePairs) = 2
    /\ Len(trk) = 3

\* The gap between record j and the next, in ticks.
Gap(j) == df[j + 1].dt_object.v - df[j].dt_object.v

\* A pair that is neither split nor at or below the step.
Between(j) ==
    /\ Gap(j) > INTERPOLATION_STEP * Resolution
    /\ Gap(j) <= MAX_GAP_SECONDS * Resolution

\* The number of points before the own point of record j: one for every
\* earlier pair that is not interpolated, floor(g / step) for the others.
RECURSIVE PointsBefore(_)
PointsBefore(j) ==
    IF j = 1 THEN 0
    ELSE PointsBefore(j - 1)
            + (IF Between(j - 1) THEN Gap(j - 1) \div (INTERPOLATION_STEP * Resolution) ELSE 1)

\* C4: for two consecutive records curr and next with a gap g, step < g <=
\* max gap, the track holds exactly floor(g / step) points from the point
\* of curr (the first of them, at curr's own time and position) up to,
\* and not counting, the point of next.
C4_FloorPoints ==
    Built =>
        LET pts == Flat(trk) IN
        \A j \in 1..(Len(df) - 1) :
            Between(j) =>
                LET first == PointsBefore(j) + 1
                    n == Gap(j) \div (INTERPOLATION_STEP * Resolution)
                IN  /\ pts[first] = OwnPoint(df[j])
                    /\ pts[first + n] = OwnPoint(df[j + 1])
                    /\ \A m \in (first + 1)..(first + n - 1) :
                          /\ pts[m].at > df[j].dt_object.v
                          /\ pts[m].at < df[j + 1].dt_object.v

\* C4 witness: two rows 10 seconds apart gave 10 points and the trailing
\* one, 11 in all.
C4_Witness ==
    /\ Built
    /\ Len(df) = 2
    /\ Gap(1) = 10 * Resolution
    /\ NumPoints(trk) = 11
    /\ Len(trk) = 1

\* C9: count_generated counts the points of the small-gap and the
\* interpolation branch only: during the loop it is the number of points
\* written less the number of splits, and the count returned for a file
\* is the number of trkpt elements written less the splits less one.
C9_CountAsymmetry ==
    /\ pc = "loop" => count_generated = NumPoints(trk) - (Len(trk) - 1)
    /\ Built =>
          /\ count_generated = NumPoints(trk) - (Len(trk) - 1) - 1
          /\ Last(results).count = count_generated
    /\ \A o \in Range(outputs) :
          results[o.file].count = NumPoints(o.trk) - (Len(o.trk) - 1) - 1

\* C9 witness: a converted file with a split, a small gap or an
\* interpolated pair, and a count that is not the number of points.
C9_Witness ==
    /\ Built
    /\ Len(trk) = 2
    /\ count_generated > 0
    /\ NumPoints(trk) = count_generated + 2

\* All records on distinct whole seconds.
WholeDistinct ==
    /\ \A j \in 1..Len(df) : df[j].dt_object.v % Resolution = 0
    /\ \A a, b \in 1..Len(df) : a # b => df[a].dt_object.v # df[b].dt_object.v

\* C10: when the records stand on distinct whole seconds, every segment
\* is non-empty, starts and ends at a record, and holds exactly one
\* point for every whole second in between; the times increase strictly
\* over the whole track, so the point of next never repeats the time of
\* an interpolated point.
C10_OnePointPerSecond ==
    (Built /\ WholeDistinct) =>
        /\ \A k \in 1..Len(trk) :
              /\ trk[k] # <<>>
              /\ \E r \in Range(df) : Head(trk[k]) = OwnPoint(r)
              /\ \E r \in Range(df) : Last(trk[k]) = OwnPoint(r)
              /\ \A j \in 1..(Len(trk[k]) - 1) : trk[k][j + 1].time = trk[k][j].time + 1
        /\ Head(trk[1]) = OwnPoint(df[1])
        /\ Last(Last(trk)) = OwnPoint(df[Len(df)])
        /\ LET pts == Flat(trk) IN
              /\ \A j \in 1..(Len(pts) - 1) : pts[j].time < pts[j + 1].time
              /\ \A j \in 1..Len(pts) : pts[j].at = pts[j].time * Resolution
              /\ \A r \in Range(df) : \E j \in 1..Len(pts) : pts[j] = OwnPoint(r)

\* C10 witness: three records on distinct whole seconds, an interpolated
\* pair and a split.
C10_Witness ==
    /\ Built
    /\ WholeDistinct
    /\ Len(df) = 3
    /\ Len(trk) = 2
    /\ NumPoints(trk) > 10

\* The k-th file was recognized and standardized without an exception.
Standardized(k) == files[k].readable /\ ~Std(k).raised /\ Std(k).fmt # "None"

\* C5: a recognized file whose rows are all dropped (or that has none) is
\* converted without failure: an empty track is written and the count
\* reported is 0.
C5_EmptyGuarded ==
    \A k \in 1..Len(results) :
        (Standardized(k) /\ dropna(Frame(Std(k).cols, Std(k).rows)) = <<>>) =>
            /\ results[k].outcome = "ok"
            /\ results[k].count = 0
            /\ \E o \in Range(outputs) : o.file = k /\ NumPoints(o.trk) = 0

\* What C6 says of every state: the files attempted so far are the first
\* ones, each once and in order; at the end all were attempted; a .gpx was
\* written for a file exactly when its columns were recognized and its
\* conversion ended without an exception; a file with unrecognized columns
\* was skipped without output.
AttemptsInOrder ==
    /\ Len(results) = fi - 1
    /\ \A k \in 1..Len(results) : results[k].file = k
    /\ pc = "done" => Len(results) = Len(files)
    /\ \A k \in 1..Len(results) :
          /\ Cardinality({j \in 1..Len(outputs) : outputs[j].file = k})
                = (IF results[k].outcome = "ok" THEN 1 ELSE 0)
          /\ results[k].outcome = "ok" => Standardized(k)
          /\ (files[k].readable /\ ~Std(k).raised /\ Std(k).fmt = "None")
                => results[k].outcome = "skipped"
    /\ \A j \in 1..Len(outputs) : outputs[j].file <= Len(results)

\* Some step of the program can be taken.
CanStep ==
    \/ NoFilesGuard \/ BeginGuard \/ ReadErrorGuard \/ UnrecognizedGuard
    \/ StandardizeErrorGuard \/ StartBuildGuard \/ GapSplitGuard \/ SmallGapGuard
    \/ InterpolateGuard \/ FinishGuard \/ FinishEmptyGuard \/ AllDoneGuard

\* Every step moves on: to a later file, or within the file from main to
\* the loop, to a later pair, or to the end of the run.
Advances ==
    \/ fi' > fi
    \/ fi' = fi /\ pc = "start" /\ pc' # "start"
    \/ fi' = fi /\ pc = "main" /\ pc' \in {"loop", "done"}
    \/ fi' = fi /\ pc = "loop" /\ pc' = "loop" /\ i' > i /\ i' <= Len(df) + 1

\* C6: per-file failures are isolated: whatever the outcomes of the files
\* (read error, unrecognized columns, exception in standardize_dataframe
\* or in the track builder, success), every file is attempted exactly once
\* and in order, a .gpx is written only for the files recognized and
\* converted without error, and the run reaches its normal end: it stops
\* nowhere else, and every step brings the end nearer.
C6_FailuresIsolated ==
    /\ [](AttemptsInOrder /\ (CanStep \/ pc \in {"done", "nofiles"}))
    /\ [][Advances]_vars

\* C6 witness: a batch of three files ended normally: the first failed in
\* the track builder, the second was not recognized, the third was
\* converted and is the only one written.
C6_Witness ==
    /\ pc = "done"
    /\ Len(files) = 3
    /\ results[1].outcome = "error" /\ results[1].raised_in = "process_and_generate_gpx"
    /\ results[2].outcome = "skipped"
    /\ results[3].outcome = "ok"
    /\ Len(outputs) = 1 /\ outputs[1].file = 3

\* Some column of the k-th file is called w once trimmed.
Present(k, w) ==
    \E j \in 1..Len(files[k].columns) : strip(files[k].columns[j]) = Name(w)

\* The format the priority rule gives the k-th file.
ExpectedFormat(k) ==
    IF Present(k, "Time") /\ Present(k, "Latitude") /\ Present(k, "Longitude")
    THEN "Variflight"
    ELSE IF Present(k, "dataTime") /\ Present(k, "latitude") /\ Present(k, "longitude")
    THEN "Footprint"
    ELSE "None"

\* C7: standardize_dataframe returns the format that the trimmed column
\* names alone decide, in priority order, and never raises, whatever
\* other columns the file has.
C7_DetectionByNames ==
    \A k \in 1..Len(results) :
        files[k].readable =>
            /\ results[k].fmt = ExpectedFormat(k)
            /\ results[k].raised_in # "standardize_dataframe"

\* The file whose conversion is under way or was reported last.
Current == IF pc = "loop" THEN fi ELSE Last(results).file

\* The k-th file without the rows whose timestamp is no number or whose
\* timestamp, latitude or longitude is missing.
WithoutBadRows(k) ==
    LET Good(r) ==
            /\ Cell(Std(k).cols, r, Name("timestamp")).k = "num"
            /\ Cell(Std(k).cols, r, Name("lat")).k # "nan"
            /\ Cell(Std(k).cols, r, Name("lon")).k # "nan"
    IN  File(TRUE, files[k].columns, SelectSeq(files[k].rows, Good))

\* The frames the loop of process_and_generate_gpx may run on for file f.
FramesOf(f) ==
    LET st == standardize_dataframe(f.columns, f.rows) IN
    {dropna(d) : d \in sort_values(Frame(st.cols, st.rows))}

\* C8: rows with a non-numeric or missing timestamp or a missing lat/lon
\* are dropped and never reach the loop: when the loop starts, the file and
\* the file without those rows give the same frames (hence the same
\* tracks); no record of the frame has a NaN timestamp, lat or lon; the
\* frame a track was built from is one the file without those rows gives;
\* and a file with at least one other row is converted.
C8_BadRowsDropped ==
    /\ (pc = "loop" /\ i = 1) =>
          FramesOf(files[fi]) = FramesOf(WithoutBadRows(fi))
    /\ (pc = "loop" \/ Built) =>
          \A j \in 1..Len(df) :
              df[j].timestamp.k = "num" /\ df[j].lat.k = "num" /\ df[j].lon.k = "num"
    /\ Built => df \in FramesOf(WithoutBadRows(Current))
    /\ \A k \in 1..Len(results) :
          (Standardized(k) /\ WithoutBadRows(k).rows # <<>>) => results[k].outcome = "ok"

\* C8 witness: a file of three rows, one with a text for a timestamp and
\* one without latitude, was converted into the single point of the
\* third row.
C8_Witness ==
    /\ Built
    /\ Len(BuiltRows) = 3
    /\ \E a, b \in 1..3 : BuiltRows[a][1].k = "text" /\ BuiltRows[b][2].k = "nan"
    /\ Len(df) = 1
    /\ NumPoints(trk) = 1

====
